---- MODULE Spec2Model ----
(***************************************************************************)
(* Authentication and token lifecycle of the Recipe Finder backend         *)
(* (src/server/routes/auth.js): register, verify-email,                    *)
(* resend-verification, login, forgot-password and reset-password, over    *)
(* the users and password_resets tables.                                   *)
(*                                                                         *)
(* Every request is an async handler.  Each `await pool.query(...)` is one *)
(* atomic statement of the store; between two statements of one handler    *)
(* the statements of other handlers may run.  A handler's step therefore   *)
(* covers the code from one query up to the next one (or up to the         *)
(* response).  Time is counted in hours.                                   *)
(***************************************************************************)
EXTENDS Integers, Sequences, FiniteSets, TLC

VARIABLES
    users,        \* table users: sequence of rows, the index is the id
    resets,       \* table password_resets: set of rows
    nextResetId,  \* AUTO_INCREMENT of password_resets
    nextToken,    \* number of the next crypto.randomBytes(32) value
    now,          \* the clock (Date.now() / NOW()), in hours
    ticks,        \* how many times the clock has advanced
    started,      \* how many requests have been received
    pc,           \* per request slot: the statement the handler is waiting at
    req,          \* per request slot: the request's (sanitized) parameters
    loc,          \* per request slot: the handler's local variables
    last,         \* the response just sent by this step (NoResult if none)
    resetLog,     \* history: the reset-password requests that answered success
    verifyLog,    \* history: the (email, token) of the verify-email successes
    sessions,     \* the session tokens that login has issued (held by clients)
    passwordLog,  \* history: per user, the last UPDATE of the password column
    recipes,      \* table recipes: set of rows
    nutrition,    \* table nutrition: the recipe_id of its rows
    nextRecipeId, \* AUTO_INCREMENT of recipes
    favorites,    \* table favorites: set of rows
    nextFavoriteId, \* AUTO_INCREMENT of favorites
    ratings,      \* table ratings: set of rows
    nextRatingId  \* AUTO_INCREMENT of ratings

\* the tables of routes/auth.js and the histories kept about them
accounts == <<users, resets, nextResetId, nextToken, now, ticks, resetLog,
              verifyLog, sessions, passwordLog>>

\* the tables of the recipe, favorite and rating routes of server.js
content == <<recipes, nutrition, nextRecipeId, favorites, nextFavoriteId,
             ratings, nextRatingId>>

vars == <<users, resets, nextResetId, nextToken, now, ticks, started,
          pc, req, loc, last, resetLog, verifyLog, sessions, passwordLog,
          recipes, nutrition, nextRecipeId, favorites, nextFavoriteId,
          ratings, nextRatingId>>

---------------------------------------------------------------------------
(* Bounds of the model *)

NumProcs == 2
MaxRequests == 2
MaxTicks == 1

Procs == 1..NumProcs

---------------------------------------------------------------------------
(* Values *)

NULL == "NULL"
NoExpiry == 0 - 1

VerificationExpiryHours == 24
ResetExpiryHours == 1
SessionExpiryHours == 168

\* the clock advances by an hour or by a day
TimeSteps == {ResetExpiryHours, VerificationExpiryHours}

\* request parameters
UsernameInputs == {"alice", "bob", "al"}
EmailInputs == {"a@x.com", "b@x.com", "nomail"}
RegisterEmailInputs == EmailInputs \cup {"A@x.com"}
RegisterPasswordInputs == {"secret2", "abc"}
LoginPasswordInputs == {"secret1", "secret2", ""}
ResetPasswordInputs == {"secret2", "abc"}

\* crypto.randomBytes(32).toString('hex'): the n-th value drawn; no two draws
\* are equal and no client knows a value that was not sent out
Token(n) == "tok" \o ToString(n)
IssuedTokens == {Token(n) : n \in 1..(nextToken - 1)}
TokenInputs == IssuedTokens \cup {""}

\* bcrypt.hash / bcrypt.compare
Hash(password) == <<"bcrypt", password>>
Compare(password, hash) == hash = Hash(password)

\* express-validator
MatchesWord(u) == u \in {"alice", "bob", "al", "carol"}
IsEmail(e) == e \in {"a@x.com", "b@x.com", "c@x.com", "A@x.com"}
NormalizeEmail(e) == IF e = "A@x.com" THEN "a@x.com" ELSE e

RegisterErrors(username, email, password) ==
    (IF Len(username) >= 3 /\ Len(username) <= 50 THEN {}
     ELSE {"Username must be between 3-50 characters"})
    \cup (IF MatchesWord(username) THEN {}
          ELSE {"Username can only contain letters, numbers, and underscores"})
    \cup (IF IsEmail(email) THEN {} ELSE {"Valid email is required"})
    \cup (IF Len(password) >= 6 THEN {}
          ELSE {"Password must be at least 6 characters"})

EmailErrors(email) ==
    IF IsEmail(email) THEN {} ELSE {"Valid email is required"}

LoginErrors(username, password) ==
    (IF username # "" THEN {} ELSE {"Username is required"})
    \cup (IF password # "" THEN {} ELSE {"Password is required"})

\* mutant: the length of the new password is not validated
ResetErrors_AnyLength(email, token, password) ==
    (IF IsEmail(email) THEN {} ELSE {"Invalid value (email)"})
    \cup (IF token # "" THEN {} ELSE {"Invalid value (token)"})

ResetErrors(email, token, password) ==
    (IF IsEmail(email) THEN {} ELSE {"Invalid value (email)"})
    \cup (IF token # "" THEN {} ELSE {"Invalid value (token)"})
    \cup (IF Len(password) >= 6 THEN {}
          ELSE {"Password must be at least 6 characters"})

---------------------------------------------------------------------------
(* Requests, locals, responses *)

\* jwt.sign({id, username, email}, secret, {expiresIn}): the signed payload
NoSession == [id |-> 0, username |-> "", email |-> "", exp |-> 0]

Request(kind, username, email, password, token) ==
    [kind |-> kind, username |-> username, email |-> email,
     password |-> password, token |-> token]

NoRequest == Request("none", "", "", "", "")

\* user is req.user, the payload that authenticateToken took from the token
NoLocals == [id |-> 0, username |-> "", email |-> "", resetId |-> 0,
             afterUse |-> FALSE, user |-> NoSession, found |-> FALSE]

\* transporter.sendMail(mailOptions)
Mail(to, kind, token) == [to |-> to, kind |-> kind, token |-> token]

NoMail == Mail("", "none", "")

\* res.status(status).json({success, message, ...}) for request r; mail is the
\* sendMail call of the step that answers, mailFailed says that the call failed
Result(r, status, message) ==
    [kind |-> r.kind, username |-> r.username, email |-> r.email,
     password |-> r.password, token |-> r.token,
     status |-> status, success |-> status \in {200, 201}, message |-> message,
     errors |-> {}, requiresVerification |-> FALSE, verified |-> FALSE,
     session |-> NoSession, userId |-> 0, emailOut |-> "", usernameOut |-> "",
     mail |-> NoMail, mailFailed |-> FALSE, afterUse |-> FALSE,
     bearer |-> NoSession, recipe |-> 0, favorite |-> "", title |-> "", rating |-> 0,
     rows |-> {}]

ValidationFailed(r, errors) ==
    [Result(r, 400, "") EXCEPT !.errors = errors]

NoResult == Result(NoRequest, 0, "")

TypeOK ==
    /\ now \in Nat /\ ticks \in 0..MaxTicks /\ started \in 0..MaxRequests
    /\ \A p \in Procs : pc[p] \in {"idle", "reg_resend", "reg_insert",
                                   "ver_update", "res_update", "fp_insert",
                                   "rp_token", "rp_update", "rp_delete",
                                   "cp_update", "rc_insert", "rc_nutrition",
                                   "rc_select", "ru_select", "rn_select",
                                   "rt_write"}

\* The server starts on the database it finds (initDatabase only connects):
\* a new one, or the one that earlier requests left.  SeededUsers and
\* SeededResets are what these requests, all received at hour 0, leave:
\* register bob; register alice; verify-email alice; forgot-password alice;
\* login alice.
SeededUsers ==
    << [username |-> "bob", email |-> "b@x.com", password |-> Hash("secret1"),
        is_verified |-> FALSE, verification_token |-> Token(1),
        verification_token_expiry |-> VerificationExpiryHours],
       [username |-> "alice", email |-> "a@x.com", password |-> Hash("secret1"),
        is_verified |-> TRUE, verification_token |-> NULL,
        verification_token_expiry |-> NoExpiry] >>

SeededResets ==
    {[id |-> 1, user_id |-> 2, token |-> Token(3), expires_at |-> ResetExpiryHours]}

SeededVerifyLog == {[email |-> "a@x.com", token |-> Token(2)]}

SeededSessions ==
    {[id |-> 2, username |-> "alice", email |-> "a@x.com", exp |-> SessionExpiryHours]}

\* the recipe, favorite and rating tables are empty
NoContent ==
    /\ recipes = {}
    /\ nutrition = {}
    /\ nextRecipeId = 1
    /\ favorites = {}
    /\ nextFavoriteId = 1
    /\ ratings = {}
    /\ nextRatingId = 1

Init ==
    /\ \/ /\ users = <<>>
          /\ resets = {}
          /\ nextResetId = 1
          /\ nextToken = 1
          /\ verifyLog = {}
          /\ sessions = {}
       \/ /\ users = SeededUsers
          /\ resets = SeededResets
          /\ nextResetId = 2
          /\ nextToken = 4
          /\ verifyLog = SeededVerifyLog
          /\ sessions = SeededSessions
    /\ now = 0
    /\ ticks = 0
    /\ started = 0
    /\ pc = [p \in Procs |-> "idle"]
    /\ req = [p \in Procs |-> NoRequest]
    /\ loc = [p \in Procs |-> NoLocals]
    /\ last = NoResult
    /\ resetLog = <<>>
    /\ passwordLog = {}
    /\ NoContent

---------------------------------------------------------------------------
(* The store's queries *)

\* SELECT id, is_verified FROM users WHERE username = ? OR email = ?
MatchingUsers(username, email) ==
    {i \in DOMAIN users : users[i].username = username \/ users[i].email = email}

\* SELECT ... FROM users WHERE email = ?
UsersByEmail(email) == {i \in DOMAIN users : users[i].email = email}

\* SELECT ... FROM users WHERE username = ?
UsersByUsername(username) == {i \in DOMAIN users : users[i].username = username}

\* mutant: the lookup does not look at the expiry
VerifiableUsers_AnyExpiry(email, token) ==
    {i \in DOMAIN users :
        /\ users[i].email = email
        /\ users[i].verification_token # NULL
        /\ users[i].verification_token = token}

\* SELECT * FROM users WHERE email = ? AND verification_token = ?
\*   AND verification_token_expiry > NOW()     (a NULL column matches nothing)
VerifiableUsers(email, token) ==
    {i \in DOMAIN users :
        /\ users[i].email = email
        /\ users[i].verification_token # NULL
        /\ users[i].verification_token = token
        /\ users[i].verification_token_expiry # NoExpiry
        /\ users[i].verification_token_expiry > now}

\* SELECT id, expires_at FROM password_resets WHERE user_id = ? AND token = ?
MatchingResets(userId, token) ==
    {r \in resets : r.user_id = userId /\ r.token = token}

\* if (new Date(reset.expires_at) < new Date())
ResetExpired(reset) == reset.expires_at < now

\* mutant: the new token is stored with the expiry of the token it replaces
WithNewToken_ExpiryKept(row, token) ==
    [row EXCEPT !.verification_token = token]

\* UPDATE users SET verification_token = ?, verification_token_expiry = ? WHERE ...
WithNewToken(row, token) ==
    [row EXCEPT !.verification_token = token,
                !.verification_token_expiry = now + VerificationExpiryHours]

\* mutant: the row is marked verified but keeps its token and expiry
MarkVerified_TokenKept(email) ==
    [i \in DOMAIN users |->
        IF users[i].email = email
        THEN [users[i] EXCEPT !.is_verified = TRUE]
        ELSE users[i]]

\* UPDATE users SET is_verified = TRUE, verification_token = NULL,
\*   verification_token_expiry = NULL WHERE email = ?
MarkVerified(email) ==
    [i \in DOMAIN users |->
        IF users[i].email = email
        THEN [users[i] EXCEPT !.is_verified = TRUE,
                              !.verification_token = NULL,
                              !.verification_token_expiry = NoExpiry]
        ELSE users[i]]

\* mutant: the used reset request is not deleted
ResetsAfterDelete_Kept(id) == resets

\* mutant: every reset request of the user is deleted with the used one
ResetsAfterDelete_AllOfUser(id) ==
    {r \in resets : \A u \in resets : u.id = id => r.user_id # u.user_id}

\* DELETE FROM password_resets WHERE id = ?
ResetsAfterDelete(id) == {r \in resets : r.id # id}

---------------------------------------------------------------------------
(* Request slots *)

\* a request is received into the lowest free slot (slots are interchangeable)
CanStart(p) ==
    /\ last = NoResult
    /\ started < MaxRequests
    /\ pc[p] = "idle"
    /\ \A q \in Procs : q < p => pc[q] # "idle"

\* the handler of slot p is resumed at the statement it waits at
Running(p, label) == last = NoResult /\ pc[p] = label

\* the handler sends its response
Answer(p, result) ==
    /\ pc' = [pc EXCEPT ![p] = "idle"]
    /\ req' = [req EXCEPT ![p] = NoRequest]
    /\ loc' = [loc EXCEPT ![p] = NoLocals]
    /\ last' = result

\* the handler waits for its next query
Await(p, label, r, l) ==
    /\ pc' = [pc EXCEPT ![p] = label]
    /\ req' = [req EXCEPT ![p] = r]
    /\ loc' = [loc EXCEPT ![p] = l]
    /\ last' = NoResult

---------------------------------------------------------------------------
(* POST /register *)

NewUser(r, token) ==
    [username |-> r.username, email |-> r.email, password |-> Hash(r.password),
     is_verified |-> FALSE, verification_token |-> token,
     verification_token_expiry |-> now + VerificationExpiryHours]

\* mutant: registration answers with a session token for the new user
RegisteredResult_WithSession(r, id, token, mailOk) ==
    [Result(r, 201, "User registered successfully")
        EXCEPT !.session = [id |-> id, username |-> r.username, email |-> r.email,
                            exp |-> now + SessionExpiryHours],
               !.userId = id, !.mail = Mail(r.email, "verify", token),
               !.mailFailed = ~mailOk]

\* the response once `await sendVerificationEmail(...)` has settled: a rejected
\* promise is thrown into the handler's catch block
RegisteredResult(r, id, token, mailOk) ==
    IF mailOk
    THEN [Result(r, 201, "Registration successful! Please check your email to verify your account.")
            EXCEPT !.requiresVerification = TRUE, !.userId = id,
                   !.mail = Mail(r.email, "verify", token)]
    ELSE [Result(r, 500, "Error registering user")
            EXCEPT !.mail = Mail(r.email, "verify", token), !.mailFailed = TRUE]

ReRegisteredResult(r, token, mailOk) ==
    IF mailOk
    THEN [Result(r, 200, "Account exists but not verified. New verification email sent.")
            EXCEPT !.requiresVerification = TRUE,
                   !.mail = Mail(r.email, "verify", token)]
    ELSE [Result(r, 500, "Error registering user")
            EXCEPT !.mail = Mail(r.email, "verify", token), !.mailFailed = TRUE]

\* validation, then the existence check; existingUsers[0] is any of the rows
\* found (the query states no order)
Register(p, username, email, password) ==
    /\ CanStart(p)
    /\ started' = started + 1
    /\ UNCHANGED <<users, resets, nextResetId, nextToken, now, ticks, resetLog, verifyLog, sessions,
                   passwordLog>>
    /\ LET r == Request("register", username, NormalizeEmail(email), password, "")
           errors == RegisterErrors(username, email, password)
           existingUsers == MatchingUsers(r.username, r.email)
       IN  IF errors # {}
           THEN Answer(p, ValidationFailed(r, errors))
           ELSE IF existingUsers = {}
           THEN Await(p, "reg_insert", r, NoLocals)
           ELSE \E i \in existingUsers :
                    IF ~users[i].is_verified
                    THEN Await(p, "reg_resend", r, [NoLocals EXCEPT !.id = i])
                    ELSE Answer(p, Result(r, 400, "Username or email already exists"))
    /\ UNCHANGED content

\* mutant: the conflict-resend path also stores the password of the request
RegisterResend_PasswordStored(p) ==
    /\ Running(p, "reg_resend")
    /\ users' = [users EXCEPT ![loc[p].id] =
                    [WithNewToken(@, Token(nextToken))
                        EXCEPT !.password = Hash(req[p].password)]]
    /\ nextToken' = nextToken + 1
    /\ \E mailOk \in BOOLEAN : Answer(p, ReRegisteredResult(req[p], Token(nextToken), mailOk))
    /\ UNCHANGED <<resets, nextResetId, now, ticks, started, resetLog, verifyLog, sessions,
                   passwordLog>>
    /\ UNCHANGED content

\* the conflict-resend path: UPDATE ... WHERE id = ?, then the mail
RegisterResend(p) ==
    /\ Running(p, "reg_resend")
    /\ users' = [users EXCEPT ![loc[p].id] = WithNewToken(@, Token(nextToken))]
    /\ nextToken' = nextToken + 1
    /\ \E mailOk \in BOOLEAN : Answer(p, ReRegisteredResult(req[p], Token(nextToken), mailOk))
    /\ UNCHANGED <<resets, nextResetId, now, ticks, started, resetLog, verifyLog, sessions,
                   passwordLog>>
    /\ UNCHANGED content

\* INSERT INTO users ...: the UNIQUE keys on username and on email make a
\* duplicate insert fail, which the catch block answers with 500
RegisterInsert(p) ==
    /\ Running(p, "reg_insert")
    /\ IF MatchingUsers(req[p].username, req[p].email) # {}
       THEN /\ Answer(p, Result(req[p], 500, "Error registering user"))
            /\ UNCHANGED <<users, nextToken>>
       ELSE /\ users' = Append(users, NewUser(req[p], Token(nextToken)))
            /\ nextToken' = nextToken + 1
                    /\ \E mailOk \in BOOLEAN :
                   Answer(p, RegisteredResult(req[p], Len(users) + 1, Token(nextToken), mailOk))
    /\ UNCHANGED <<resets, nextResetId, now, ticks, started, resetLog, verifyLog, sessions,
                   passwordLog>>
    /\ UNCHANGED content

---------------------------------------------------------------------------
(* GET /verify-email *)

VerifyEmail(p, token, email) ==
    /\ CanStart(p)
    /\ started' = started + 1
    /\ UNCHANGED <<users, resets, nextResetId, nextToken, now, ticks, resetLog, verifyLog, sessions,
                   passwordLog>>
    /\ LET r == Request("verify", "", email, "", token)
           au == [email |-> email, token |-> token] \in verifyLog
           found == VerifiableUsers(email, token)
       IN  IF token = "" \/ email = ""
           THEN Answer(p, Result(r, 400, "Token and email are required"))
           ELSE IF found = {}
           THEN Answer(p, [Result(r, 400, "Invalid or expired verification token")
                             EXCEPT !.afterUse = au])
           ELSE \E i \in found :
                    Await(p, "ver_update", r, [NoLocals EXCEPT !.id = i, !.afterUse = au])
    /\ UNCHANGED content

VerifyUpdate(p) ==
    /\ Running(p, "ver_update")
    /\ users' = MarkVerified(req[p].email)
    /\ verifyLog' = verifyLog \cup {[email |-> req[p].email, token |-> req[p].token]}
    /\ Answer(p, [Result(req[p], 200, "Email verified successfully! You can now log in.")
                    EXCEPT !.verified = TRUE, !.afterUse = loc[p].afterUse])
    /\ UNCHANGED <<resets, nextResetId, nextToken, now, ticks, started, resetLog,
                   sessions, passwordLog>>
    /\ UNCHANGED content

---------------------------------------------------------------------------
(* POST /resend-verification *)

ResendVerification(p, email) ==
    /\ CanStart(p)
    /\ started' = started + 1
    /\ UNCHANGED <<users, resets, nextResetId, nextToken, now, ticks, resetLog, verifyLog, sessions,
                   passwordLog>>
    /\ LET r == Request("resend", "", email, "", "")
           found == UsersByEmail(email)
       IN  IF EmailErrors(email) # {}
           THEN Answer(p, ValidationFailed(r, EmailErrors(email)))
           ELSE IF found = {}
           THEN Answer(p, Result(r, 404, "Email not found"))
           ELSE \E i \in found :
                    IF users[i].is_verified
                    THEN Answer(p, Result(r, 400, "Email is already verified"))
                    ELSE Await(p, "res_update", r,
                               [NoLocals EXCEPT !.id = i, !.username = users[i].username])
    /\ UNCHANGED content

ResentResult(r, token, mailOk) ==
    IF mailOk
    THEN [Result(r, 200, "Verification email sent! Please check your inbox.")
            EXCEPT !.mail = Mail(r.email, "verify", token)]
    ELSE [Result(r, 500, "Error sending verification email")
            EXCEPT !.mail = Mail(r.email, "verify", token), !.mailFailed = TRUE]

\* UPDATE users SET verification_token = ?, ... WHERE email = ?, then the mail
ResendUpdate(p) ==
    /\ Running(p, "res_update")
    /\ users' = [i \in DOMAIN users |->
                    IF users[i].email = req[p].email
                    THEN WithNewToken(users[i], Token(nextToken))
                    ELSE users[i]]
    /\ nextToken' = nextToken + 1
    /\ \E mailOk \in BOOLEAN : Answer(p, ResentResult(req[p], Token(nextToken), mailOk))
    /\ UNCHANGED <<resets, nextResetId, now, ticks, started, resetLog, verifyLog, sessions,
                   passwordLog>>
    /\ UNCHANGED content

---------------------------------------------------------------------------
(* POST /login: one query, then the checks on the row read *)

SessionFor(i) ==
    [id |-> i, username |-> users[i].username, email |-> users[i].email,
     exp |-> now + SessionExpiryHours]

\* mutant: the password is compared before is_verified is looked at
LoginResult_PasswordFirst(r) ==
    LET found == UsersByUsername(r.username)
        i == CHOOSE i \in found : TRUE
    IN  IF LoginErrors(r.username, r.password) # {}
        THEN ValidationFailed(r, LoginErrors(r.username, r.password))
        ELSE IF found = {}
        THEN Result(r, 400, "Invalid username or password")
        ELSE IF ~Compare(r.password, users[i].password)
        THEN Result(r, 400, "Invalid username or password")
        ELSE IF ~users[i].is_verified
        THEN [Result(r, 403, "Please verify your email before logging in")
                EXCEPT !.requiresVerification = TRUE, !.emailOut = users[i].email]
        ELSE [Result(r, 200, "Login successful")
                EXCEPT !.session = SessionFor(i), !.userId = i]

\* mutant: an unknown username is answered with its own status and message
LoginResult_UserNotFound(r) ==
    LET found == UsersByUsername(r.username)
        i == CHOOSE i \in found : TRUE
    IN  IF LoginErrors(r.username, r.password) # {}
        THEN ValidationFailed(r, LoginErrors(r.username, r.password))
        ELSE IF found = {}
        THEN Result(r, 404, "User not found")
        ELSE IF ~users[i].is_verified
        THEN [Result(r, 403, "Please verify your email before logging in")
                EXCEPT !.requiresVerification = TRUE, !.emailOut = users[i].email]
        ELSE IF ~Compare(r.password, users[i].password)
        THEN Result(r, 400, "Invalid username or password")
        ELSE [Result(r, 200, "Login successful")
                EXCEPT !.session = SessionFor(i), !.userId = i]

LoginResult(r) ==
    LET found == UsersByUsername(r.username)
        i == CHOOSE i \in found : TRUE
    IN  IF LoginErrors(r.username, r.password) # {}
        THEN ValidationFailed(r, LoginErrors(r.username, r.password))
        ELSE IF found = {}
        THEN Result(r, 400, "Invalid username or password")
        ELSE IF ~users[i].is_verified
        THEN [Result(r, 403, "Please verify your email before logging in")
                EXCEPT !.requiresVerification = TRUE, !.emailOut = users[i].email]
        ELSE IF ~Compare(r.password, users[i].password)
        THEN Result(r, 400, "Invalid username or password")
        ELSE [Result(r, 200, "Login successful")
                EXCEPT !.session = SessionFor(i), !.userId = i]

Login(p, username, password) ==
    /\ CanStart(p)
    /\ started' = started + 1
    /\ LET result == LoginResult(Request("login", username, "", password, ""))
       IN  /\ Answer(p, result)
           /\ sessions' = sessions \cup ({result.session} \ {NoSession})
    /\ UNCHANGED <<users, resets, nextResetId, nextToken, now, ticks, resetLog,
                   verifyLog, passwordLog>>
    /\ UNCHANGED content

---------------------------------------------------------------------------
(* POST /forgot-password *)

GenericForgotMessage == "If the email exists, a reset link has been sent."

\* mutant: an unknown email is answered like resend-verification answers it
ForgotUnknownResult_NotFound(r) == Result(r, 404, "Email not found")

\* mutant: the reset mail is sent to the address of the request before the
\* lookup is looked at
ForgotUnknownResult_Mailed(r) ==
    [Result(r, 200, GenericForgotMessage) EXCEPT !.mail = Mail(r.email, "reset", "")]

\* if (users.length === 0) return res.json({success: true, message: ...})
ForgotUnknownResult(r) == Result(r, 200, GenericForgotMessage)

ForgotPassword(p, email) ==
    /\ CanStart(p)
    /\ started' = started + 1
    /\ UNCHANGED <<users, resets, nextResetId, nextToken, now, ticks, resetLog, verifyLog, sessions,
                   passwordLog>>
    /\ LET r == Request("forgot", "", email, "", "")
           found == UsersByEmail(email)
       IN  IF EmailErrors(email) # {}
           THEN Answer(p, ValidationFailed(r, EmailErrors(email)))
           ELSE IF found = {}
           THEN Answer(p, ForgotUnknownResult(r))
           ELSE \E i \in found :
                    Await(p, "fp_insert", r,
                          [NoLocals EXCEPT !.id = i, !.username = users[i].username,
                                           !.email = users[i].email])
    /\ UNCHANGED content

NewReset(userId, token) ==
    [id |-> nextResetId, user_id |-> userId, token |-> token,
     expires_at |-> now + ResetExpiryHours]

\* mutant: the insert also purges the reset requests that have expired
ResetsAfterInsert_Purged(userId, token) ==
    {r \in resets : ~ResetExpired(r)} \cup {NewReset(userId, token)}

\* INSERT INTO password_resets (user_id, token, expires_at) VALUES (?, ?, ?)
ResetsAfterInsert(userId, token) == resets \cup {NewReset(userId, token)}

\* INSERT INTO password_resets ..., then sendMail with a callback: an error is
\* logged by the callback and the response does not wait for it
ForgotInsert(p) ==
    /\ Running(p, "fp_insert")
    /\ resets' = ResetsAfterInsert(loc[p].id, Token(nextToken))
    /\ nextResetId' = nextResetId + 1
    /\ nextToken' = nextToken + 1
    /\ \E mailOk \in BOOLEAN :
           Answer(p, [Result(req[p], 200, GenericForgotMessage)
                        EXCEPT !.mail = Mail(loc[p].email, "reset", Token(nextToken)),
                               !.mailFailed = ~mailOk])
    /\ UNCHANGED <<users, now, ticks, started, resetLog, verifyLog, sessions, passwordLog>>
    /\ UNCHANGED content

---------------------------------------------------------------------------
(* POST /reset-password *)

\* history: a reset-password with this email and token has answered success
AfterUse(email, token) ==
    \E k \in DOMAIN resetLog :
        resetLog[k].email = email /\ resetLog[k].token = token

ResetPassword(p, email, token, password) ==
    /\ CanStart(p)
    /\ started' = started + 1
    /\ UNCHANGED <<users, resets, nextResetId, nextToken, now, ticks, resetLog, verifyLog, sessions,
                   passwordLog>>
    /\ LET r == Request("reset", "", email, password, token)
           errors == ResetErrors(email, token, password)
           au == AfterUse(email, token)
           found == UsersByEmail(email)
       IN  IF errors # {}
           THEN Answer(p, [ValidationFailed(r, errors) EXCEPT !.afterUse = au])
           ELSE IF found = {}
           THEN Answer(p, [Result(r, 400, "Invalid token or email") EXCEPT !.afterUse = au])
           ELSE \E i \in found :
                    Await(p, "rp_token", r, [NoLocals EXCEPT !.id = i, !.afterUse = au])
    /\ UNCHANGED content

\* the token lookup and the expiry check on rows[0]
ResetToken(p) ==
    /\ Running(p, "rp_token")
    /\ LET rows == MatchingResets(loc[p].id, req[p].token)
       IN  IF rows = {}
           THEN Answer(p, [Result(req[p], 400, "Invalid token or email")
                             EXCEPT !.afterUse = loc[p].afterUse])
           ELSE \E reset \in rows :
                    IF ResetExpired(reset)
                    THEN Answer(p, [Result(req[p], 400, "Token expired")
                                      EXCEPT !.afterUse = loc[p].afterUse])
                    ELSE Await(p, "rp_update", req[p],
                               [loc[p] EXCEPT !.resetId = reset.id])
    /\ UNCHANGED <<users, resets, nextResetId, nextToken, now, ticks, started,
                   resetLog, verifyLog, sessions, passwordLog>>
    /\ UNCHANGED content

\* mutant: the new password is stored as it comes, without bcrypt.hash
WithPassword_Unhashed(id, password) ==
    [users EXCEPT ![id].password = <<"plain", password>>]

\* bcrypt.hash, then UPDATE users SET password = ? WHERE id = ?
WithPassword(id, password) ==
    [users EXCEPT ![id].password = Hash(password)]

\* history: the statement `by` has just written `password` for user id
PasswordLogged(id, password, by) ==
    {e \in passwordLog : e.userId # id}
        \cup {[userId |-> id, password |-> password, by |-> by]}

\* UPDATE users SET password = ? WHERE id = ?
ResetUpdate(p) ==
    /\ Running(p, "rp_update")
    /\ users' = WithPassword(loc[p].id, req[p].password)
    /\ passwordLog' = PasswordLogged(loc[p].id, req[p].password, "reset")
    /\ Await(p, "rp_delete", req[p], loc[p])
    /\ UNCHANGED <<resets, nextResetId, nextToken, now, ticks, started, resetLog,
                   verifyLog, sessions>>
    /\ UNCHANGED content

\* DELETE FROM password_resets WHERE id = ?, the notification mail (callback),
\* and the success response
ResetDelete(p) ==
    /\ Running(p, "rp_delete")
    /\ resets' = ResetsAfterDelete(loc[p].resetId)
    /\ resetLog' = Append(resetLog, [id |-> loc[p].resetId, email |-> req[p].email,
                                     token |-> req[p].token])
    /\ \E mailOk \in BOOLEAN :
           Answer(p, [Result(req[p], 200, "Password updated successfully")
                        EXCEPT !.mail = Mail(req[p].email, "changed", ""),
                               !.mailFailed = ~mailOk, !.afterUse = loc[p].afterUse])
    /\ UNCHANGED <<users, nextResetId, nextToken, now, ticks, started,
                   verifyLog, sessions, passwordLog>>
    /\ UNCHANGED content

---------------------------------------------------------------------------
(* Requests that carry a session token *)

SessionInputs == sessions \cup {NoSession}
ProfileUsernameInputs == {"alice", "bob", "carol"}
ProfileEmailInputs == {"a@x.com", "c@x.com"}
CurrentPasswordInputs == {"secret1", "secret2"}
\* the new password is not validated: three letters are taken
NewPasswordInputs == {"secret2", "abc"}

\* authenticateToken: the token verifies when it carries the server's
\* signature, which only the tokens that login issued do, and is not expired
Authenticated(session) == session \in sessions /\ now < session.exp

\* the middleware answers before the handler reads the body of the request
Unauthorized(r, session) ==
    [Result(Request(r.kind, "", "", "", ""), 401, "Unauthorized")
        EXCEPT !.bearer = session]

\* GET /me: SELECT id, username, email, created_at FROM users WHERE id = ?
MeResult_ByUsername(r, session) ==
    IF UsersByUsername(session.username) = {}
    THEN [Result(r, 404, "User not found") EXCEPT !.bearer = session]
    ELSE LET i == CHOOSE i \in UsersByUsername(session.username) : TRUE
         IN  [Result(r, 200, "") EXCEPT !.bearer = session, !.userId = i,
                                        !.usernameOut = users[i].username,
                                        !.emailOut = users[i].email]

MeResult(r, session) ==
    IF session.id \notin DOMAIN users
    THEN [Result(r, 404, "User not found") EXCEPT !.bearer = session]
    ELSE [Result(r, 200, "") EXCEPT !.bearer = session, !.userId = session.id,
                                   !.usernameOut = users[session.id].username,
                                   !.emailOut = users[session.id].email]

Me(p, session) ==
    /\ CanStart(p)
    /\ started' = started + 1
    /\ LET r == Request("me", "", "", "", "")
       IN  IF ~Authenticated(session)
           THEN Answer(p, Unauthorized(r, session))
           ELSE Answer(p, MeResult(r, session))
    /\ UNCHANGED <<users, resets, nextResetId, nextToken, now, ticks, resetLog,
                   verifyLog, sessions, passwordLog>>
    /\ UNCHANGED content

\* mutant: a changed email address has to be verified again
WithProfile_Unverified(id, username, email) ==
    [users EXCEPT ![id].username = username, ![id].email = email,
                  ![id].is_verified = (users[id].email = email)]

\* UPDATE users SET username = ?, email = ? WHERE id = ?
WithProfile(id, username, email) ==
    [users EXCEPT ![id].username = username, ![id].email = email]

\* another row holding the username or the email makes the UPDATE fail on the
\* UNIQUE keys
ProfileTaken(id, username, email) ==
    \E i \in DOMAIN users :
        i # id /\ (users[i].username = username \/ users[i].email = email)

\* PUT /api/users/profile: the body is written to the row as it comes
UpdateProfile(p, session, username, email) ==
    /\ CanStart(p)
    /\ started' = started + 1
    /\ LET r == Request("profile", username, email, "", "")
       IN  IF ~Authenticated(session)
           THEN /\ Answer(p, Unauthorized(r, session))
                /\ users' = users
           ELSE IF ProfileTaken(session.id, username, email)
           THEN /\ Answer(p, [Result(r, 500, "Failed to update profile")
                                EXCEPT !.bearer = session])
                /\ users' = users
           ELSE /\ Answer(p, [Result(r, 200, "Profile updated")
                                EXCEPT !.bearer = session])
                /\ users' = IF session.id \in DOMAIN users
                            THEN WithProfile(session.id, username, email)
                            ELSE users
    /\ UNCHANGED <<resets, nextResetId, nextToken, now, ticks, resetLog,
                   verifyLog, sessions, passwordLog>>
    /\ UNCHANGED content

\* POST /api/users/change-password: SELECT password FROM users WHERE id = ?
\* and bcrypt.compare with currentPassword
ChangePassword(p, session, currentPassword, newPassword) ==
    /\ CanStart(p)
    /\ started' = started + 1
    /\ LET r == Request("change", "", "", newPassword, "")
       IN  IF ~Authenticated(session)
           THEN Answer(p, Unauthorized(r, session))
           ELSE IF session.id \notin DOMAIN users
           THEN Answer(p, [Result(r, 500, "Failed to change password")
                             EXCEPT !.bearer = session])
           ELSE IF ~Compare(currentPassword, users[session.id].password)
           THEN Answer(p, [Result(r, 400, "Current password is incorrect")
                             EXCEPT !.bearer = session])
           ELSE Await(p, "cp_update", r, [NoLocals EXCEPT !.user = session])
    /\ UNCHANGED <<users, resets, nextResetId, nextToken, now, ticks, resetLog,
                   verifyLog, sessions, passwordLog>>
    /\ UNCHANGED content

\* UPDATE users SET password = ? WHERE id = ?
ChangeUpdate(p) ==
    /\ Running(p, "cp_update")
    /\ users' = WithPassword(loc[p].user.id, req[p].password)
    /\ passwordLog' = PasswordLogged(loc[p].user.id, req[p].password, "change")
    /\ Answer(p, [Result(req[p], 200, "Password changed successfully")
                    EXCEPT !.bearer = loc[p].user])
    /\ UNCHANGED <<resets, nextResetId, nextToken, now, ticks, started, resetLog,
                   verifyLog, sessions>>
    /\ UNCHANGED content

---------------------------------------------------------------------------
(* Recipes: GET /recipes, GET /recipes/:id, POST /recipes, PUT /recipes/:id, *)
(* DELETE /recipes/:id, GET /recipes/:id/nutrition                           *)

TitleInputs == {"Soup", "soup", "Stew"}
RecipeIdInputs == 1..3

\* LOWER(title)
Lower(title) ==
    IF title = "Soup" THEN "soup" ELSE IF title = "Stew" THEN "stew" ELSE title

\* a request of the recipe, favorite and rating routes: recipe is :id,
\* favorite is recipeId of the body, given says that the body has nutrition
ContentRequest(kind, recipe, favorite, title, rating, given) ==
    [kind |-> kind, recipe |-> recipe, favorite |-> favorite, title |-> title,
     rating |-> rating, given |-> given]

\* res.status(status).json(...) of these routes; message is the error or
\* message of the body, rows are the rows the body carries
ContentResult(r, session, status, message, rows) ==
    [Result(NoRequest, status, message)
        EXCEPT !.kind = r.kind, !.bearer = session, !.recipe = r.recipe,
               !.favorite = r.favorite, !.title = r.title, !.rating = r.rating,
               !.rows = rows]

\* authenticateToken refuses the request
Refused(r, session) ==
    [Unauthorized(Request(r.kind, "", "", "", ""), session) EXCEPT !.recipe = r.recipe]

Recipe(id, userId, title) == [id |-> id, user_id |-> userId, title |-> title]

\* SELECT ... FROM recipes r ... WHERE r.user_id = ?
RecipesOf(userId) == {r \in recipes : r.user_id = userId}

\* ... FROM recipes WHERE id = ? AND user_id = ?
OwnedRecipes(id, userId) == {r \in recipes : r.id = id /\ r.user_id = userId}

\* SELECT id FROM recipes WHERE LOWER(title) = LOWER(?) AND user_id = ?
SameTitle(title, userId) ==
    {r \in recipes : Lower(r.title) = Lower(title) /\ r.user_id = userId}

\* SELECT * FROM recipes WHERE id = ?
RecipesById(id) == {r \in recipes : r.id = id}

GetRecipes(p, session) ==
    /\ CanStart(p)
    /\ started' = started + 1
    /\ LET r == ContentRequest("recipes", 0, "", "", 0, FALSE)
       IN  IF ~Authenticated(session)
           THEN Answer(p, Refused(r, session))
           ELSE Answer(p, ContentResult(r, session, 200, "", RecipesOf(session.id)))
    /\ UNCHANGED <<accounts, content>>

GetRecipe(p, session, id) ==
    /\ CanStart(p)
    /\ started' = started + 1
    /\ LET r == ContentRequest("recipe", id, "", "", 0, FALSE)
           rows == OwnedRecipes(id, session.id)
       IN  IF ~Authenticated(session)
           THEN Answer(p, Refused(r, session))
           ELSE IF rows = {}
           THEN Answer(p, ContentResult(r, session, 404, "Recipe not found", {}))
           ELSE Answer(p, ContentResult(r, session, 200, "", rows))
    /\ UNCHANGED <<accounts, content>>

\* POST /recipes: the check whether the user already saved this recipe
PostRecipe(p, session, title, given) ==
    /\ CanStart(p)
    /\ started' = started + 1
    /\ LET r == ContentRequest("recipe_post", 0, "", title, 0, given)
           existing == SameTitle(title, session.id)
       IN  IF ~Authenticated(session)
           THEN Answer(p, Refused(r, session))
           ELSE IF existing # {}
           THEN Answer(p, ContentResult(r, session, 409, "Recipe already exists", existing))
           ELSE Await(p, "rc_insert", r, [NoLocals EXCEPT !.user = session])
    /\ UNCHANGED <<accounts, content>>

\* INSERT INTO recipes (title, ..., user_id) VALUES (...)
RecipeInsert(p) ==
    /\ Running(p, "rc_insert")
    /\ recipes' = recipes \cup {Recipe(nextRecipeId, loc[p].user.id, req[p].title)}
    /\ nextRecipeId' = nextRecipeId + 1
    /\ Await(p, IF req[p].given THEN "rc_nutrition" ELSE "rc_select", req[p],
             [loc[p] EXCEPT !.id = nextRecipeId])
    /\ UNCHANGED <<accounts, started, nutrition, favorites, nextFavoriteId, ratings,
                   nextRatingId>>

\* INSERT INTO nutrition (recipe_id, ...): the foreign key on recipe_id makes
\* the insert fail when the recipe is gone
RecipeNutrition(p) ==
    /\ Running(p, "rc_nutrition")
    /\ IF RecipesById(loc[p].id) = {}
       THEN /\ Answer(p, ContentResult(req[p], loc[p].user, 500, "Failed to create recipe", {}))
            /\ nutrition' = nutrition
       ELSE /\ Await(p, "rc_select", req[p], loc[p])
            /\ nutrition' = nutrition \cup {loc[p].id}
    /\ UNCHANGED <<accounts, started, recipes, nextRecipeId, favorites,
                   nextFavoriteId, ratings, nextRatingId>>

\* SELECT * FROM recipes WHERE id = ?, and the response with rows[0]
RecipeSelect(p) ==
    /\ Running(p, "rc_select")
    /\ Answer(p, [ContentResult(req[p], loc[p].user, 201, "", RecipesById(loc[p].id))
                    EXCEPT !.recipe = loc[p].id])
    /\ UNCHANGED <<accounts, started, content>>

\* mutant: the UPDATE names the row by its id alone
RecipesAfterUpdate_AnyOwner(id, userId, title) ==
    {IF r.id = id THEN [r EXCEPT !.title = title] ELSE r : r \in recipes}

\* UPDATE recipes SET title = ?, ... WHERE id = ? AND user_id = ?
RecipesAfterUpdate(id, userId, title) ==
    {IF r.id = id /\ r.user_id = userId THEN [r EXCEPT !.title = title] ELSE r :
        r \in recipes}

PutRecipe(p, session, id, title) ==
    /\ CanStart(p)
    /\ started' = started + 1
    /\ LET r == ContentRequest("recipe_put", id, "", title, 0, FALSE)
       IN  IF ~Authenticated(session)
           THEN /\ Answer(p, Refused(r, session))
                /\ recipes' = recipes
           ELSE /\ Await(p, "ru_select", r, [NoLocals EXCEPT !.user = session])
                /\ recipes' = RecipesAfterUpdate(id, session.id, title)
    /\ UNCHANGED <<accounts, nutrition, nextRecipeId, favorites, nextFavoriteId,
                   ratings, nextRatingId>>

\* SELECT * FROM recipes WHERE id = ? AND user_id = ?
RecipeUpdated(p) ==
    /\ Running(p, "ru_select")
    /\ LET rows == OwnedRecipes(req[p].recipe, loc[p].user.id)
       IN  IF rows = {}
           THEN Answer(p, ContentResult(req[p], loc[p].user, 404, "Recipe not found", {}))
           ELSE Answer(p, ContentResult(req[p], loc[p].user, 200, "", rows))
    /\ UNCHANGED <<accounts, started, content>>

\* DELETE FROM recipes WHERE id = ? AND user_id = ?; the nutrition and the
\* ratings of the recipe go with it (ON DELETE CASCADE)
DeleteRecipe(p, session, id) ==
    /\ CanStart(p)
    /\ started' = started + 1
    /\ LET r == ContentRequest("recipe_delete", id, "", "", 0, FALSE)
           rows == OwnedRecipes(id, session.id)
       IN  IF ~Authenticated(session)
           THEN /\ Answer(p, Refused(r, session))
                /\ UNCHANGED <<recipes, nutrition, ratings>>
           ELSE IF rows = {}
           THEN /\ Answer(p, ContentResult(r, session, 404, "Recipe not found", {}))
                /\ UNCHANGED <<recipes, nutrition, ratings>>
           ELSE /\ Answer(p, ContentResult(r, session, 200, "Recipe deleted successfully", {}))
                /\ recipes' = recipes \ rows
                /\ nutrition' = nutrition \ {id}
                /\ ratings' = {t \in ratings : t.recipe_id # id}
    /\ UNCHANGED <<accounts, nextRecipeId, favorites, nextFavoriteId, nextRatingId>>

\* GET /recipes/:id/nutrition: verify that the recipe belongs to the user
GetNutrition(p, session, id) ==
    /\ CanStart(p)
    /\ started' = started + 1
    /\ LET r == ContentRequest("nutrition", id, "", "", 0, FALSE)
       IN  IF ~Authenticated(session)
           THEN Answer(p, Refused(r, session))
           ELSE IF OwnedRecipes(id, session.id) = {}
           THEN Answer(p, ContentResult(r, session, 404, "Recipe not found", {}))
           ELSE Await(p, "rn_select", r, [NoLocals EXCEPT !.user = session])
    /\ UNCHANGED <<accounts, content>>

\* SELECT * FROM nutrition WHERE recipe_id = ?; rows are the recipes whose
\* nutrition is sent
NutritionSelect(p) ==
    /\ Running(p, "rn_select")
    /\ IF req[p].recipe \notin nutrition
       THEN Answer(p, ContentResult(req[p], loc[p].user, 404, "Nutrition data not found", {}))
       ELSE Answer(p, ContentResult(req[p], loc[p].user, 200, "", RecipesById(req[p].recipe)))
    /\ UNCHANGED <<accounts, started, content>>

---------------------------------------------------------------------------
(* Favorites: GET, POST /api/favorites, DELETE /api/favorites/:recipeId *)

\* recipeId of the body as JSON carries it: a number, a string, or nothing
FavoriteIdInputs ==
    {<<"number", "5">>, <<"string", "5">>, <<"string", "7">>, <<"number", "0">>,
     <<"undefined", "">>}
FavoriteTitleInputs == {"Soup", ""}
FavoritePathInputs == {"5", "7"}

\* !recipeId
Falsy(v) == v[1] = "undefined" \/ v = <<"number", "0">> \/ v = <<"string", "">>

\* recipeId.toString()
ToStr(v) == v[2]

Favorite(id, userId, recipeId, title) ==
    [id |-> id, user_id |-> userId, recipe_id |-> recipeId, title |-> title]

\* SELECT ... FROM favorites WHERE user_id = ?
FavoritesOf(userId) == {f \in favorites : f.user_id = userId}

\* mutant: the table has no UNIQUE KEY unique_favorite
DuplicateFavorite_NoKey(userId, recipeId) == FALSE

\* UNIQUE KEY unique_favorite (user_id, recipe_id): the INSERT would be a
\* duplicate entry
DuplicateFavorite(userId, recipeId) ==
    \E f \in favorites : f.user_id = userId /\ f.recipe_id = recipeId

GetFavorites(p, session) ==
    /\ CanStart(p)
    /\ started' = started + 1
    /\ LET r == ContentRequest("favorites", 0, "", "", 0, FALSE)
       IN  IF ~Authenticated(session)
           THEN Answer(p, Refused(r, session))
           ELSE Answer(p, ContentResult(r, session, 200, "", FavoritesOf(session.id)))
    /\ UNCHANGED <<accounts, content>>

\* POST /api/favorites: one INSERT; ER_DUP_ENTRY is answered 400
PostFavorite(p, session, recipeId, title) ==
    /\ CanStart(p)
    /\ started' = started + 1
    /\ LET r == ContentRequest("favorite_post", 0, ToStr(recipeId), title, 0, FALSE)
       IN  IF ~Authenticated(session)
           THEN /\ Answer(p, Refused(r, session))
                /\ UNCHANGED <<favorites, nextFavoriteId>>
           ELSE IF Falsy(recipeId) \/ title = ""
           THEN /\ Answer(p, ContentResult(r, session, 400,
                                           "Recipe ID and title are required", {}))
                /\ UNCHANGED <<favorites, nextFavoriteId>>
           ELSE IF DuplicateFavorite(session.id, ToStr(recipeId))
           THEN /\ Answer(p, ContentResult(r, session, 400, "Already in favorites", {}))
                /\ UNCHANGED <<favorites, nextFavoriteId>>
           ELSE /\ Answer(p, ContentResult(r, session, 201, "Added to favorites", {}))
                /\ favorites' = favorites
                      \cup {Favorite(nextFavoriteId, session.id, ToStr(recipeId), title)}
                /\ nextFavoriteId' = nextFavoriteId + 1
    /\ UNCHANGED <<accounts, recipes, nutrition, nextRecipeId, ratings, nextRatingId>>

\* DELETE FROM favorites WHERE user_id = ? AND recipe_id = ?
DeleteFavorite(p, session, recipeId) ==
    /\ CanStart(p)
    /\ started' = started + 1
    /\ LET r == ContentRequest("favorite_delete", 0, recipeId, "", 0, FALSE)
       IN  IF ~Authenticated(session)
           THEN /\ Answer(p, Refused(r, session))
                /\ favorites' = favorites
           ELSE /\ Answer(p, ContentResult(r, session, 200, "Removed from favorites", {}))
                /\ favorites' = {f \in favorites :
                                    ~(f.user_id = session.id /\ f.recipe_id = recipeId)}
    /\ UNCHANGED <<accounts, recipes, nutrition, nextRecipeId, nextFavoriteId,
                   ratings, nextRatingId>>

---------------------------------------------------------------------------
(* Ratings: POST /api/recipes/:id/ratings *)

\* rating of the body when the body has none
NoRating == 0 - 1
RatingInputs == {0, 3, 5, 6, NoRating}

\* if (rating < 1 || rating > 5): undefined compares false both times
OutOfRange(rating) == rating # NoRating /\ (rating < 1 \/ rating > 5)

Rating(id, userId, recipeId, rating) ==
    [id |-> id, user_id |-> userId, recipe_id |-> recipeId, rating |-> rating]

\* SELECT id FROM ratings WHERE user_id = ? AND recipe_id = ?
RatingsBy(userId, recipeId) ==
    {t \in ratings : t.user_id = userId /\ t.recipe_id = recipeId}

\* mutant: a second row is inserted whether or not the user has rated
RatingsAfterUpdate_Inserted(userId, recipeId, rating) ==
    ratings \cup {Rating(nextRatingId, userId, recipeId, rating)}

\* UPDATE ratings SET rating = ?, review = ? WHERE user_id = ? AND recipe_id = ?
RatingsAfterUpdate(userId, recipeId, rating) ==
    {IF t.user_id = userId /\ t.recipe_id = recipeId
     THEN [t EXCEPT !.rating = rating] ELSE t : t \in ratings}

\* rating INT NOT NULL CHECK (rating >= 1 AND rating <= 5), the foreign key on
\* recipe_id and UNIQUE KEY unique_rating (user_id, recipe_id): the INSERT fails
InsertRefused(userId, recipeId, rating) ==
    \/ rating = NoRating
    \/ rating < 1 \/ rating > 5
    \/ RecipesById(recipeId) = {}
    \/ RatingsBy(userId, recipeId) # {}

\* validation, then the check whether the user already rated
PostRating(p, session, id, rating) ==
    /\ CanStart(p)
    /\ started' = started + 1
    /\ LET r == ContentRequest("rating_post", id, "", "", rating, FALSE)
       IN  IF ~Authenticated(session)
           THEN Answer(p, Refused(r, session))
           ELSE IF OutOfRange(rating)
           THEN Answer(p, ContentResult(r, session, 400,
                                        "Rating must be between 1 and 5", {}))
           ELSE Await(p, "rt_write", r,
                      [NoLocals EXCEPT !.user = session,
                                       !.found = RatingsBy(session.id, id) # {}])
    /\ UNCHANGED <<accounts, content>>

\* the UPDATE of the existing rating, or the INSERT of a new one; an error of
\* the store is answered 500
RatingWrite(p) ==
    /\ Running(p, "rt_write")
    /\ LET r == req[p]
           user == loc[p].user
       IN  IF loc[p].found
           THEN IF r.rating = NoRating \/ r.rating < 1 \/ r.rating > 5
                THEN /\ Answer(p, ContentResult(r, user, 500, "Failed to submit rating", {}))
                     /\ UNCHANGED <<ratings, nextRatingId>>
                ELSE /\ Answer(p, ContentResult(r, user, 200, "Rating updated", {}))
                     /\ ratings' = RatingsAfterUpdate(user.id, r.recipe, r.rating)
                     /\ nextRatingId' = nextRatingId
           ELSE IF InsertRefused(user.id, r.recipe, r.rating)
                THEN /\ Answer(p, ContentResult(r, user, 500, "Failed to submit rating", {}))
                     /\ UNCHANGED <<ratings, nextRatingId>>
                ELSE /\ Answer(p, ContentResult(r, user, 201, "Rating submitted", {}))
                     /\ ratings' = ratings
                           \cup {Rating(nextRatingId, user.id, r.recipe, r.rating)}
                     /\ nextRatingId' = nextRatingId + 1
    /\ UNCHANGED <<accounts, started, recipes, nutrition, nextRecipeId, favorites,
                   nextFavoriteId>>

---------------------------------------------------------------------------
(* Time *)

Tick(d) ==
    /\ last = NoResult
    /\ ticks < MaxTicks
    /\ now' = now + d
    /\ ticks' = ticks + 1
    /\ last' = NoResult
    /\ UNCHANGED <<users, resets, nextResetId, nextToken, started, pc, req, loc,
                   resetLog, verifyLog, sessions, passwordLog>>
    /\ UNCHANGED content

\* the response written by the last step leaves the server
Deliver ==
    /\ last # NoResult
    /\ last' = NoResult
    /\ UNCHANGED <<users, resets, nextResetId, nextToken, now, ticks, started,
                   pc, req, loc, resetLog, verifyLog, sessions,
                   passwordLog>>
    /\ UNCHANGED content

---------------------------------------------------------------------------
(* Specifications *)

\* a request arrives in slot p; every handler starts with CanStart(p), which is
\* repeated in front of the inputs so that a slot that cannot start is left
\* without trying them
Receive(p) ==
    \/ /\ CanStart(p)
       /\ \E u \in UsernameInputs, e \in RegisterEmailInputs, w \in RegisterPasswordInputs :
              Register(p, u, e, w)
    \/ /\ CanStart(p)
       /\ \E t \in TokenInputs, e \in EmailInputs \cup {""} : VerifyEmail(p, t, e)
    \/ /\ CanStart(p)
       /\ \E e \in EmailInputs : ResendVerification(p, e)
    \/ /\ CanStart(p)
       /\ \E u \in UsernameInputs, w \in LoginPasswordInputs : Login(p, u, w)
    \/ /\ CanStart(p)
       /\ \E e \in EmailInputs : ForgotPassword(p, e)
    \/ /\ CanStart(p)
       /\ \E e \in EmailInputs, t \in TokenInputs, w \in ResetPasswordInputs :
              ResetPassword(p, e, t, w)
    \/ /\ CanStart(p)
       /\ \E s \in SessionInputs : Me(p, s)
    \/ /\ CanStart(p)
       /\ \E s \in SessionInputs, u \in ProfileUsernameInputs, e \in ProfileEmailInputs :
              UpdateProfile(p, s, u, e)
    \/ /\ CanStart(p)
       /\ \E s \in SessionInputs, c \in CurrentPasswordInputs, w \in NewPasswordInputs :
              ChangePassword(p, s, c, w)

\* the handler in slot p runs its next statement
Resume(p) ==
    \/ RegisterResend(p)
    \/ RegisterInsert(p)
    \/ VerifyUpdate(p)
    \/ ResendUpdate(p)
    \/ ForgotInsert(p)
    \/ ResetToken(p)
    \/ ResetUpdate(p)
    \/ ResetDelete(p)
    \/ ChangeUpdate(p)

Next ==
    \/ \E p \in Procs : Receive(p)
    \/ \E p \in Procs : Resume(p)
    \/ \E d \in TimeSteps : Tick(d)
    \/ Deliver

\* requests that may overlap
Spec == Init /\ [][Next]_vars

\* the database of SeededUsers after a second forgot-password of alice at
\* hour 0: two reset requests of one user are outstanding
TwoResets ==
    SeededResets
        \cup {[id |-> 2, user_id |-> 2, token |-> Token(4), expires_at |-> ResetExpiryHours]}

InitTwoResets ==
    /\ users = SeededUsers
    /\ resets = TwoResets
    /\ nextResetId = 3
    /\ nextToken = 5
    /\ verifyLog = SeededVerifyLog
    /\ sessions = SeededSessions
    /\ now = 0
    /\ ticks = 0
    /\ started = 0
    /\ pc = [p \in Procs |-> "idle"]
    /\ req = [p \in Procs |-> NoRequest]
    /\ loc = [p \in Procs |-> NoLocals]
    /\ last = NoResult
    /\ resetLog = <<>>
    /\ passwordLog = {}
    /\ NoContent

SpecTwoResets == InitTwoResets /\ [][Next]_vars

---------------------------------------------------------------------------
(* The recipe, favorite and rating routes *)

\* SeededUsers once bob has verified his address and logged in, at hour 0: two
\* users hold a session token
TwoUsers ==
    [i \in DOMAIN SeededUsers |->
        [SeededUsers[i] EXCEPT !.is_verified = TRUE, !.verification_token = NULL,
                               !.verification_token_expiry = NoExpiry]]

TwoSessions ==
    SeededSessions
        \cup {[id |-> 1, username |-> "bob", email |-> "b@x.com", exp |-> SessionExpiryHours]}

\* what these requests leave: bob saves Soup with its nutrition, alice saves
\* Stew, alice rates recipe 1 with 4 and adds recipe 5 to her favorites
SeededRecipes == {Recipe(1, 1, "Soup"), Recipe(2, 2, "Stew")}
SeededFavorites == {Favorite(1, 2, "5", "Soup")}
SeededRatings == {Rating(1, 2, 1, 4)}

InitContent ==
    /\ users = TwoUsers
    /\ resets = SeededResets
    /\ nextResetId = 2
    /\ nextToken = 4
    /\ verifyLog = SeededVerifyLog \cup {[email |-> "b@x.com", token |-> Token(1)]}
    /\ sessions = TwoSessions
    /\ now = 0
    /\ ticks = 0
    /\ started = 0
    /\ pc = [p \in Procs |-> "idle"]
    /\ req = [p \in Procs |-> NoRequest]
    /\ loc = [p \in Procs |-> NoLocals]
    /\ last = NoResult
    /\ resetLog = <<>>
    /\ passwordLog = {}
    /\ \/ NoContent
       \/ /\ recipes = SeededRecipes
          /\ nutrition = {1}
          /\ nextRecipeId = 3
          /\ favorites = SeededFavorites
          /\ nextFavoriteId = 2
          /\ ratings = SeededRatings
          /\ nextRatingId = 2

ReceiveRecipes(p) ==
    \/ /\ CanStart(p)
       /\ \E s \in SessionInputs : GetRecipes(p, s)
    \/ /\ CanStart(p)
       /\ \E s \in SessionInputs, i \in RecipeIdInputs : GetRecipe(p, s, i)
    \/ /\ CanStart(p)
       /\ \E s \in SessionInputs, t \in TitleInputs, g \in BOOLEAN : PostRecipe(p, s, t, g)
    \/ /\ CanStart(p)
       /\ \E s \in SessionInputs, i \in RecipeIdInputs, t \in TitleInputs :
              PutRecipe(p, s, i, t)
    \/ /\ CanStart(p)
       /\ \E s \in SessionInputs, i \in RecipeIdInputs : DeleteRecipe(p, s, i)
    \/ /\ CanStart(p)
       /\ \E s \in SessionInputs, i \in RecipeIdInputs : GetNutrition(p, s, i)

ResumeRecipes(p) ==
    \/ RecipeInsert(p)
    \/ RecipeNutrition(p)
    \/ RecipeSelect(p)
    \/ RecipeUpdated(p)
    \/ NutritionSelect(p)

NextRecipes ==
    \/ \E p \in Procs : ReceiveRecipes(p)
    \/ \E p \in Procs : ResumeRecipes(p)
    \/ Deliver

\* requests of the recipe routes, which may overlap
SpecRecipes == InitContent /\ [][NextRecipes]_vars

ReceiveFavorites(p) ==
    \/ /\ CanStart(p)
       /\ \E s \in SessionInputs : GetFavorites(p, s)
    \/ /\ CanStart(p)
       /\ \E s \in SessionInputs, i \in FavoriteIdInputs, t \in FavoriteTitleInputs :
              PostFavorite(p, s, i, t)
    \/ /\ CanStart(p)
       /\ \E s \in SessionInputs, i \in FavoritePathInputs : DeleteFavorite(p, s, i)

NextFavorites ==
    \/ \E p \in Procs : ReceiveFavorites(p)
    \/ Deliver

\* requests of the favorite routes; each is one statement of the store
SpecFavorites == InitContent /\ [][NextFavorites]_vars

\* a rating goes with its recipe, so the DELETE of a recipe is a request here
ReceiveRatings(p) ==
    \/ /\ CanStart(p)
       /\ \E s \in SessionInputs, i \in RecipeIdInputs, v \in RatingInputs :
              PostRating(p, s, i, v)
    \/ /\ CanStart(p)
       /\ \E s \in SessionInputs, i \in RecipeIdInputs : DeleteRecipe(p, s, i)

NextRatings ==
    \/ \E p \in Procs : ReceiveRatings(p)
    \/ \E p \in Procs : RatingWrite(p)
    \/ Deliver

\* requests of the rating route, which may overlap
SpecRatings == InitContent /\ [][NextRatings]_vars

\* one request at a time: a request is received only when no handler is running
Quiet == \A p \in Procs : pc[p] = "idle"

NextSeq ==
    \/ \E p \in Procs : Quiet /\ Receive(p)
    \/ \E p \in Procs : Resume(p)
    \/ \E d \in TimeSteps : Tick(d)
    \/ Deliver

SpecSeq == Init /\ [][NextSeq]_vars

---------------------------------------------------------------------------
(* Properties.  `last` is the response written by the step that led to the  *)
(* state, with the request it answers; in a step, last' is the response     *)
(* the step writes and the unprimed variables are the store it found.       *)

RegisterAnswered == last'.kind = "register" /\ last'.errors = {}

VerifiedMatch(username, email) ==
    \E i \in DOMAIN users :
        users[i].is_verified /\ (users[i].username = username \/ users[i].email = email)

UnverifiedMatch(username, email) ==
    \E i \in DOMAIN users :
        ~users[i].is_verified /\ (users[i].username = username \/ users[i].email = email)

\* C1: in every reachable state, whatever the interleaving of the requests,
\* each user row has verification_token and verification_token_expiry both
\* set or both null, and a verified user has both null.
C1_TokenFieldsConsistent ==
    \A i \in DOMAIN users :
        /\ (users[i].verification_token = NULL)
               <=> (users[i].verification_token_expiry = NoExpiry)
        /\ users[i].is_verified =>
               /\ users[i].verification_token = NULL
               /\ users[i].verification_token_expiry = NoExpiry

\* C2: a request during which sending the email failed still answers with
\* its success response.
C2_MailFailureNeverFailsRequest ==
    last.mailFailed => last.success

\* C3: when reset-password looks up the token and every request matching
\* (user, token) has now >= expires_at (now = expires_at included), it answers
\* Token expired.
C3_ExpiredFromExpiresAt ==
    [][\A p \in Procs :
          (/\ pc[p] = "rp_token"
           /\ pc'[p] # "rp_token"
           /\ MatchingResets(loc[p].id, req[p].token) # {}
           /\ \A r \in MatchingResets(loc[p].id, req[p].token) : now >= r.expires_at)
          => (last'.status = 400 /\ last'.message = "Token expired")]_vars

\* C4 as stated: a reset-password received after one with the same
\* (email, token) answered success fails with Invalid token or email.
C4_ReplayAlwaysInvalidToken ==
    (last.kind = "reset" /\ last.afterUse)
        => (last.status = 400 /\ last.message = "Invalid token or email")

\* C4, amended: a reset-password received after one with the same
\* (email, token) answered success never reaches the UPDATE of the password,
\* and fails with 400: with Invalid token or email when its new password has
\* at least 6 characters, with the validation error on the password otherwise.
C4_ReplayRejected ==
    /\ \A p \in Procs :
          (req[p].kind = "reset" /\ loc[p].afterUse) => pc[p] = "rp_token"
    /\ (last.kind = "reset" /\ last.afterUse) =>
          /\ last.status = 400
          /\ IF Len(last.password) >= 6
             THEN last.errors = {} /\ last.message = "Invalid token or email"
             ELSE last.errors = {"Password must be at least 6 characters"}

\* a replayed reset-password with a valid password has just been refused
C4_Witness ==
    /\ last.kind = "reset" /\ last.afterUse
    /\ last.message = "Invalid token or email"

\* C5: no password reset request is used by two reset-password requests that
\* both answer success, also when the two overlap.
C5_ConsumedOnce ==
    \A j, k \in DOMAIN resetLog :
        j # k => resetLog[j].id # resetLog[k].id

\* C6: a register (passing validation) whose username or email belongs to a
\* verified user answers 400 Username or email already exists and changes no
\* user row, whatever other rows it matches.
C6_VerifiedConflict ==
    [][(RegisterAnswered /\ VerifiedMatch(last'.username, last'.email))
          => /\ last'.status = 400
             /\ last'.message = "Username or email already exists"
             /\ users' = users]_vars

\* C7: a register (passing validation) whose username or email matches an
\* unverified user adds no row, gives a matching unverified row a fresh token
\* expiring in 24 hours, and answers success with requiresVerification.
C7_ReRegisterUnverified ==
    [][(RegisterAnswered /\ UnverifiedMatch(last'.username, last'.email))
          => /\ Len(users') = Len(users)
             /\ last'.success /\ last'.requiresVerification
             /\ \E i \in DOMAIN users :
                   /\ ~users[i].is_verified
                   /\ users[i].username = last'.username \/ users[i].email = last'.email
                   /\ users'[i].verification_token = Token(nextToken)
                   /\ users'[i].verification_token_expiry = now + VerificationExpiryHours]_vars

\* C8: a register with valid input and a username and email that no row has
\* inserts exactly one row, unverified with token and expiry set, and answers
\* success with requiresVerification and the new id.
C8_FreshRegister ==
    [][(RegisterAnswered /\ MatchingUsers(last'.username, last'.email) = {})
          => /\ Len(users') = Len(users) + 1
             /\ SubSeq(users', 1, Len(users)) = users
             /\ users'[Len(users')].username = last'.username
             /\ users'[Len(users')].email = last'.email
             /\ ~users'[Len(users')].is_verified
             /\ users'[Len(users')].verification_token # NULL
             /\ users'[Len(users')].verification_token_expiry # NoExpiry
             /\ last'.success /\ last'.requiresVerification
             /\ last'.userId = Len(users')]_vars

LoginOfUnverified ==
    /\ last.kind = "login"
    /\ \E i \in DOMAIN users : users[i].username = last.username /\ ~users[i].is_verified

\* C9 as stated: login with the username of an unverified user and any
\* password answers 403 (email not verified).
C9_AnyPasswordNotVerified ==
    LoginOfUnverified
        => (last.status = 403 /\ last.message = "Please verify your email before logging in")

\* C9, amended: login with the username of an unverified user never answers
\* Invalid username or password and issues no session token; it answers 403
\* (email not verified) for any non-empty password, correct or wrong, and the
\* validation error 400 for an empty password.
C9_UnverifiedLogin ==
    LoginOfUnverified
        => /\ last.message # "Invalid username or password"
           /\ last.session = NoSession
           /\ IF last.password = ""
              THEN last.status = 400 /\ last.errors = {"Password is required"}
              ELSE /\ last.status = 403
                   /\ last.message = "Please verify your email before logging in"

\* an unverified user has just been refused with 403, with the right password
\* or with a wrong one
C9_Witness ==
    /\ LoginOfUnverified
    /\ last.status = 403
    /\ \E i \in DOMAIN users :
          users[i].username = last.username /\ ~Compare(last.password, users[i].password)

---------------------------------------------------------------------------
(* Verification of the email address *)

VerifyAnswered == last'.kind = "verify" /\ last'.token # "" /\ last'.email # ""

\* C11: verify-email with the token a user's row holds, unexpired, is not
\* refused; when it answers success the row with that email is verified and
\* its token and expiry are null; a verify-email received after a success
\* with the same token and email answers 400 Invalid or expired verification
\* token.
C11_VerifyOnce ==
    [][/\ (VerifyAnswered /\ ~last'.success)
            => VerifiableUsers(last'.email, last'.token) = {}
       /\ (VerifyAnswered /\ last'.success)
            => /\ UsersByEmail(last'.email) # {}
               /\ \A i \in UsersByEmail(last'.email) :
                     /\ users'[i].is_verified
                     /\ users'[i].verification_token = NULL
                     /\ users'[i].verification_token_expiry = NoExpiry
       /\ (VerifyAnswered /\ last'.afterUse)
            => /\ last'.status = 400
               /\ last'.message = "Invalid or expired verification token"]_vars

\* a verify-email has just been refused that repeats one that succeeded
C11_Witness ==
    /\ last.kind = "verify" /\ last.afterUse
    /\ last.message = "Invalid or expired verification token"
    /\ [email |-> last.email, token |-> last.token] \notin SeededVerifyLog
    /\ \E i \in UsersByEmail(last.email) : users[i].is_verified

\* C12: verified is terminal: a row that is verified is still verified after
\* any step of any request (register again with its username or email,
\* resend-verification, forgot-password, reset-password, login, profile
\* update, change-password), also when requests overlap.
C12_VerifiedIsTerminal ==
    [][\A i \in DOMAIN users :
          users[i].is_verified => (i \in DOMAIN users' /\ users'[i].is_verified)]_vars

\* a verified user has just changed the email address of the profile and is
\* still verified
C12_Witness ==
    /\ last.kind = "profile" /\ last.success
    /\ last.email # last.bearer.email
    /\ users[last.bearer.id].email = last.email
    /\ users[last.bearer.id].is_verified

---------------------------------------------------------------------------
(* What a client can tell from a response *)

\* the status code and the body of a response, without the request it answers
ResponseBody(result) ==
    [status |-> result.status, success |-> result.success,
     message |-> result.message, errors |-> result.errors,
     requiresVerification |-> result.requiresVerification,
     verified |-> result.verified, session |-> result.session,
     userId |-> result.userId, emailOut |-> result.emailOut,
     usernameOut |-> result.usernameOut]

\* res.status(400).json({success: false, message: 'Invalid username or password'})
InvalidCredentials == ResponseBody(Result(NoRequest, 400, "Invalid username or password"))

LoginUnknownUser ==
    /\ last.kind = "login" /\ last.errors = {}
    /\ UsersByUsername(last.username) = {}

LoginWrongPassword ==
    /\ last.kind = "login" /\ last.errors = {}
    /\ \E i \in UsersByUsername(last.username) :
          users[i].is_verified /\ ~Compare(last.password, users[i].password)

\* C13: a login with a username that no row has and a login of a verified
\* user with a wrong password are answered with the same status code and the
\* same body, the one Invalid username or password response.
C13_SameInvalidCredentials ==
    (LoginUnknownUser \/ LoginWrongPassword) => ResponseBody(last) = InvalidCredentials

\* a verified user has just been refused for a wrong password, while another
\* username exists that no row has
C13_Witness ==
    /\ LoginWrongPassword
    /\ last.status = 400
    /\ \E u \in UsernameInputs : UsersByUsername(u) = {}

\* C14: forgot-password with a well-formed email answers 200 with the one
\* generic message and nothing else in the body, whether a row has the email
\* or not.
C14_SameForgotResponse ==
    (last.kind = "forgot" /\ last.errors = {})
        => ResponseBody(last) = ResponseBody(Result(NoRequest, 200, GenericForgotMessage))

\* forgot-password has just been answered for an email that no row has
C14_Witness ==
    /\ last.kind = "forgot" /\ last.errors = {}
    /\ UsersByEmail(last.email) = {}
    /\ \E e \in EmailInputs : UsersByEmail(e) # {}

\* a forgot-password with email e is received by this step
ForgotReceived(e) ==
    /\ started' = started + 1
    /\ \/ last'.kind = "forgot" /\ last'.email = e
       \/ \E p \in Procs : pc[p] = "idle" /\ req'[p].kind = "forgot" /\ req'[p].email = e

\* C15: a forgot-password with a well-formed email that no row has is answered
\* by the step that looks the email up, with no call of the mailer, and leaves
\* users and password_resets as they are.
C15_UnknownEmailNoEffect ==
    [][\A e \in EmailInputs :
          (ForgotReceived(e) /\ IsEmail(e) /\ UsersByEmail(e) = {})
              => /\ last'.kind = "forgot" /\ last'.success
                 /\ last'.mail = NoMail
                 /\ users' = users
                 /\ resets' = resets /\ nextResetId' = nextResetId]_vars

\* forgot-password for an unknown email has just been answered, while a reset
\* request of another user is stored
C15_Witness ==
    /\ last.kind = "forgot" /\ last.success
    /\ UsersByEmail(last.email) = {}
    /\ last.mail = NoMail
    /\ resets # {}

---------------------------------------------------------------------------
(* Registrations that overlap *)

\* no two rows share a username or an email
UniqueIdentities(rows) ==
    \A i, j \in DOMAIN rows :
        i # j => (rows[i].username # rows[j].username /\ rows[i].email # rows[j].email)

\* C16: when a register that passed the existence check reaches its INSERT
\* after another request has stored its username or email, no second row with
\* that username or email is stored and the request is answered with a
\* conflict error (400).
C16_DuplicateInsertConflict ==
    [][\A p \in Procs :
          (/\ pc[p] = "reg_insert" /\ pc'[p] = "idle"
           /\ MatchingUsers(req[p].username, req[p].email) # {})
          => /\ UniqueIdentities(users')
             /\ users' = users
             /\ last'.status = 400]_vars

---------------------------------------------------------------------------
(* Several reset requests of one user *)

\* C17: the reset requests of a user are valid independently of each other:
\* the DELETE of a successful reset-password removes only the request whose
\* token it carried, and a reset-password whose token matches a stored request
\* that is not expired is not refused, whatever other requests were used.
C17_IndependentResets ==
    [][\A p \in Procs :
          /\ (pc[p] = "rp_delete" /\ pc'[p] = "idle")
                => /\ last'.success
                   /\ resets' \subseteq resets
                   /\ \A r \in resets \ resets' :
                         r.user_id = loc[p].id /\ r.token = req[p].token
          /\ (/\ pc[p] = "rp_token" /\ pc'[p] # "rp_token"
              /\ \E r \in MatchingResets(loc[p].id, req[p].token) : now < r.expires_at)
                => pc'[p] = "rp_update"]_vars

\* a second reset-password of one user has just succeeded, with another token
\* than the first
C17_Witness ==
    /\ last.kind = "reset" /\ last.success
    /\ \E j, k \in DOMAIN resetLog :
          /\ j < k
          /\ resetLog[j].email = resetLog[k].email
          /\ resetLog[j].token # resetLog[k].token
          /\ resetLog[k].token = last.token

---------------------------------------------------------------------------
(* Login after a password reset *)

\* the response just written answers a login of verified user i, whose
\* password column was last written by the reset-password recorded in e
LoginAfterReset(i, e) ==
    /\ last.kind = "login" /\ last.errors = {}
    /\ i \in UsersByUsername(last.username)
    /\ users[i].is_verified
    /\ e \in passwordLog /\ e.userId = i /\ e.by = "reset"

\* C18: after a successful reset-password of a verified user, and as long as
\* no later statement has written the user's password, a login with the new
\* password succeeds and a login with any other password, the previous one
\* included, is answered Invalid username or password.
C18_LoginFollowsReset ==
    \A i \in DOMAIN users : \A e \in passwordLog :
        LoginAfterReset(i, e)
            => IF last.password = e.password
               THEN last.success /\ last.session.id = i
               ELSE ResponseBody(last) = InvalidCredentials

\* a login with the password set by a reset-password has just succeeded
C18_Witness ==
    /\ last.kind = "login" /\ last.success
    /\ \E e \in passwordLog :
          e.userId = last.session.id /\ e.by = "reset" /\ e.password = last.password
    /\ resetLog # <<>>

---------------------------------------------------------------------------
(* Who can verify an email address *)

\* a row with this email stores this token, with an expiry in the future
StoresToken(email, token) ==
    \E i \in DOMAIN users :
        /\ users[i].email = email
        /\ token # NULL /\ users[i].verification_token = token
        /\ users[i].verification_token_expiry # NoExpiry
        /\ now < users[i].verification_token_expiry

---------------------------------------------------------------------------
(* C20 *)

\* C20: a session token that login issued is accepted by GET /me, which
\* answers 200 with the row of the user the token names, at any hour before
\* the token expires, whatever reset-password, change-password and profile
\* update have done to that row since.
C20_SessionOutlivesChanges ==
    (last.kind = "me" /\ last.bearer \in sessions /\ now < last.bearer.exp)
        => /\ last.status = 200
           /\ last.userId = last.bearer.id
           /\ last.usernameOut = users[last.bearer.id].username
           /\ last.emailOut = users[last.bearer.id].email

\* GET /me has just accepted a session token whose user has a new password by
\* reset-password
C20_Witness ==
    /\ last.kind = "me" /\ last.status = 200
    /\ last.bearer \in sessions
    /\ \E e \in passwordLog : e.userId = last.bearer.id /\ e.by = "reset"

---------------------------------------------------------------------------
(* C21 *)

\* the step is a statement of a request whose caller is user u
ActorIs(u) ==
    \/ last' # NoResult /\ last'.bearer.id = u
    \/ \E p \in Procs : pc'[p] # pc[p] /\ pc'[p] # "idle" /\ loc'[p].user.id = u

\* the response answers a request that names a recipe by its id
NamesRecipe(result) ==
    /\ result.kind \in {"recipe", "recipe_put", "recipe_delete", "nutrition"}
    /\ result.status # 401

---------------------------------------------------------------------------
(* C22 *)

UniqueFavorites(rows) ==
    \A f, g \in rows : (f.user_id = g.user_id /\ f.recipe_id = g.recipe_id) => f = g

\* the response answers a POST /api/favorites of a user that named a recipe
\* and a title (none of the inputs is the string "0")
FavoritePosted(result) ==
    /\ result.kind = "favorite_post" /\ result.status # 401
    /\ result.title # "" /\ result.favorite \notin {"", "0"}

\* C22: a user has at most one favorite per recipeId after every step, and a
\* POST /api/favorites that names a recipeId and a title is answered 400
\* Already in favorites, with no row added, when the caller has that
\* recipeId in favorites, and is answered 201 with one row added otherwise.
C22_OneFavoritePerRecipe ==
    [][/\ UniqueFavorites(favorites) /\ UniqueFavorites(favorites')
       /\ FavoritePosted(last')
             => IF \E f \in favorites :
                      f.user_id = last'.bearer.id /\ f.recipe_id = last'.favorite
                THEN /\ last'.status = 400
                     /\ last'.message = "Already in favorites"
                     /\ favorites' = favorites
                ELSE /\ last'.status = 201
                     /\ Cardinality(favorites') = Cardinality(favorites) + 1]_vars

\* a POST /api/favorites has just been answered Already in favorites, for a
\* recipeId that an earlier request of this caller added
C22_Witness ==
    /\ last.kind = "favorite_post" /\ last.status = 400
    /\ last.message = "Already in favorites"
    /\ \E f \in favorites \ SeededFavorites :
          f.user_id = last.bearer.id /\ f.recipe_id = last.favorite

---------------------------------------------------------------------------
(* C23 *)

\* an unexpired reset request of the user with this email carries this token
UsableReset(email, token) ==
    \E i \in UsersByEmail(email) :
        \E reset \in MatchingResets(i, token) : ~ResetExpired(reset)

\* C23: a reset-password whose new password is shorter than 6 characters is
\* answered 400 with the validation error of the password, whether or not
\* its email and token name a reset request, and the step leaves the users
\* and the reset requests as they were, so that a usable request stays usable.
C23_ShortPasswordRejected ==
    [][(last'.kind = "reset" /\ Len(last'.password) < 6)
          => /\ last'.status = 400 /\ ~last'.success
             /\ "Password must be at least 6 characters" \in last'.errors
             /\ users' = users /\ resets' = resets /\ now' = now]_vars

\* a reset-password with a short password has just been refused although its
\* email and token name an unexpired reset request, which is still there
C23_Witness ==
    /\ last.kind = "reset" /\ Len(last.password) < 6 /\ last.status = 400
    /\ last.errors = {"Password must be at least 6 characters"}
    /\ UsableReset(last.email, last.token)

---------------------------------------------------------------------------
(* C24 *)

\* the tokens sent out so far that verify-email would accept for row i
Accepted(i) == {t \in IssuedTokens : i \in VerifiableUsers(users[i].email, t)}

\* the step stores a new verification token in row i
Reissued(i) ==
    /\ users'[i].verification_token # users[i].verification_token
    /\ users'[i].verification_token # NULL

\* C24: at most one of the tokens sent out is accepted for a user; a step
\* of resend-verification or of the conflict-resend path of register that
\* stores a new token leaves that token as the only one accepted, the
\* earlier token refused and the new one good for 24 hours whatever the expiry
\* of the earlier one was; and a verify-email received for an unverified user
\* goes on to verify exactly when its token is the stored, unexpired one, and
\* is answered 400 Invalid or expired verification token otherwise.
C24_OnlyLatestTokenAccepted ==
    [][/\ \A i \in DOMAIN users :
             /\ Cardinality(Accepted(i)) <= 1
             /\ Cardinality(Accepted(i)') <= 1
             /\ Reissued(i)
                   => /\ users'[i].verification_token \notin IssuedTokens
                      /\ users[i].verification_token \notin Accepted(i)'
                      /\ Accepted(i)' = {users'[i].verification_token}
                      /\ users'[i].verification_token_expiry = now + VerificationExpiryHours
             /\ ~users[i].is_verified
                   => /\ \A p \in Procs :
                            (/\ pc[p] = "idle" /\ pc'[p] = "ver_update"
                             /\ req'[p].email = users[i].email)
                                => /\ req'[p].token \in Accepted(i)
                                   /\ loc'[p].id = i
                      /\ (/\ started' # started /\ last'.kind = "verify"
                          /\ last'.email = users[i].email /\ last'.token # "")
                             => /\ last'.token \notin Accepted(i)
                                /\ last'.status = 400
                                /\ last'.message = "Invalid or expired verification token"
       /\ \A p \in Procs :
             (pc[p] = "ver_update" /\ pc'[p] = "idle")
                 => /\ last'.kind = "verify" /\ last'.status = 200
                    /\ users'[loc[p].id].is_verified]_vars

\* verify-email has just succeeded for bob with a token that was sent out
\* after bob's first token had expired
C24_Witness ==
    /\ last.kind = "verify" /\ last.status = 200
    /\ last.email = "b@x.com" /\ last.token \notin {"", Token(1)}
    /\ users = [SeededUsers EXCEPT ![1] = MarkVerified("b@x.com")[1]]
    /\ now >= SeededUsers[1].verification_token_expiry

---------------------------------------------------------------------------
(* C25 *)

\* the step is the DELETE of a reset-password that found reset request r with
\* its token, and answers success
UsedBy(r) ==
    \E p \in Procs :
        /\ pc[p] = "rp_delete" /\ pc'[p] = "idle"
        /\ loc[p].resetId = r.id /\ loc[p].id = r.user_id /\ req[p].token = r.token
        /\ last'.kind = "reset" /\ last'.status = 200

---------------------------------------------------------------------------
(* C26 *)

UniqueTitles(rows) ==
    \A r, s \in rows :
        (r.user_id = s.user_id /\ Lower(r.title) = Lower(s.title)) => r = s

\* C26: after every step no user has two saved recipes whose titles are
\* equal without regard to case, and a POST /recipes whose title the caller
\* already saved is answered 409 Recipe already exists and inserts nothing.
C26_NoDuplicateTitles ==
    [][/\ UniqueTitles(recipes')
       /\ (/\ last'.kind = "recipe_post" /\ last'.status # 401
           /\ SameTitle(last'.title, last'.bearer.id) # {}
           /\ started' # started)
             => /\ last'.status = 409
                /\ last'.message = "Recipe already exists"
                /\ recipes' = recipes]_vars

---------------------------------------------------------------------------
(* C27 *)

UniqueRatings(rows) ==
    \A t, u \in rows : (t.user_id = u.user_id /\ t.recipe_id = u.recipe_id) => t = u

RatingIds(rows) == {t.id : t \in rows}

\* C27: after every step a user has at most one rating per recipe and every
\* stored rating is within 1..5; a POST of a rating below 1 or above 5 is
\* answered 400 Rating must be between 1 and 5 and leaves the ratings as they
\* were; and a POST by a user who has rated the recipe adds no row: it sets
\* the rating of the existing row and is answered 200 Rating updated when
\* its lookup found the row, and changes nothing otherwise.
C27_OneRatingInRange ==
    [][/\ UniqueRatings(ratings')
       /\ \A t \in ratings' : t.rating \in 1..5
       /\ (/\ last'.kind = "rating_post" /\ last'.status # 401
           /\ last'.rating # NoRating
           /\ (last'.rating < 1 \/ last'.rating > 5))
             => /\ last'.status = 400
                /\ last'.message = "Rating must be between 1 and 5"
                /\ ratings' = ratings
       /\ \A p \in Procs :
             (/\ pc[p] = "rt_write" /\ pc'[p] = "idle"
              /\ RatingsBy(loc[p].user.id, req[p].recipe) # {})
                 => /\ RatingIds(ratings') = RatingIds(ratings)
                    /\ IF loc[p].found /\ req[p].rating # NoRating
                       THEN /\ last'.status = 200 /\ last'.message = "Rating updated"
                            /\ \A t \in ratings' :
                                  (t.user_id = loc[p].user.id /\ t.recipe_id = req[p].recipe)
                                      => t.rating = req[p].rating
                       ELSE /\ last'.status = 500
                            /\ ratings' = ratings]_vars

\* a user who had rated a recipe has just rated it again with another rating:
\* the request was answered Rating updated and the one row holds the new rating
C27_Witness ==
    /\ last.kind = "rating_post" /\ last.status = 200 /\ last.message = "Rating updated"
    /\ Cardinality(ratings) = 1
    /\ \E t \in ratings :
          /\ t.user_id = last.bearer.id /\ t.recipe_id = last.recipe
          /\ t.rating = last.rating
          /\ \E s \in SeededRatings : s.id = t.id /\ s.rating # t.rating

---------------------------------------------------------------------------
(* C28 *)

\* C28: when a step calls sendMail with a verification mail, every user
\* whose stored verification token the mail carries has the mail's address
\* as stored email.
C28_TokenMailedToOwner ==
    [][last'.mail.kind = "verify"
          => \A i \in DOMAIN users' :
                users'[i].verification_token = last'.mail.token
                    => users'[i].email = last'.mail.to]_vars

---------------------------------------------------------------------------
(* C29: reset-password on a store whose queries can fail *)

\* the first query of reset-password, SELECT id FROM users WHERE email = ?,
\* is rejected: the catch block answers 500
ResetSelectFails(p, email, token, password) ==
    /\ CanStart(p)
    /\ started' = started + 1
    /\ ResetErrors(email, token, password) = {}
    /\ Answer(p, [Result(Request("reset", "", email, password, token), 500,
                         "Error resetting password")
                    EXCEPT !.afterUse = AfterUse(email, token)])
    /\ UNCHANGED <<users, resets, nextResetId, nextToken, now, ticks, resetLog,
                   verifyLog, sessions, passwordLog>>
    /\ UNCHANGED content

\* the query that the handler in slot p is about to send (the SELECT of the
\* reset request, the UPDATE of the password or the DELETE of the reset
\* request) is rejected: nothing is written by it and the catch block answers 500
ResetQueryFails(p) ==
    /\ last = NoResult
    /\ pc[p] \in {"rp_token", "rp_update", "rp_delete"}
    /\ Answer(p, [Result(req[p], 500, "Error resetting password")
                    EXCEPT !.afterUse = loc[p].afterUse])
    /\ UNCHANGED <<users, resets, nextResetId, nextToken, now, ticks, started,
                   resetLog, verifyLog, sessions, passwordLog>>
    /\ UNCHANGED content

ReceiveFaulty(p) ==
    \/ /\ CanStart(p)
       /\ \E e \in EmailInputs, t \in TokenInputs, w \in ResetPasswordInputs :
              ResetPassword(p, e, t, w)
    \/ /\ CanStart(p)
       /\ \E e \in EmailInputs, t \in TokenInputs, w \in ResetPasswordInputs :
              ResetSelectFails(p, e, t, w)

ResumeFaulty(p) ==
    \/ ResetToken(p)
    \/ ResetUpdate(p)
    \/ ResetDelete(p)
    \/ ResetQueryFails(p)

NextFaulty ==
    \/ \E p \in Procs : ReceiveFaulty(p)
    \/ \E p \in Procs : ResumeFaulty(p)
    \/ \E d \in TimeSteps : Tick(d)
    \/ Deliver

\* reset-password requests, which may overlap, on a store that can reject a query
SpecFaulty == Init /\ [][NextFaulty]_vars

\* C29: a reset-password that is answered with an error (400 or 500) has
\* executed neither its UPDATE of the password nor its DELETE of the reset
\* request, and its answering step writes nothing; a reset-password that is
\* answered with success has stored the hash of its password and leaves no
\* reset request with the id it used.
C29_AllOrNothing ==
    [][/\ (last'.kind = "reset" /\ ~last'.success)
             => /\ users' = users /\ resets' = resets
                /\ \A p \in Procs :
                      (pc[p] # "idle" /\ pc'[p] = "idle")
                          => pc[p] \in {"rp_token", "rp_update"}
       /\ (last'.kind = "reset" /\ last'.success)
             => \E p \in Procs :
                   /\ pc[p] = "rp_delete" /\ pc'[p] = "idle"
                   /\ users'[loc[p].id].password = Hash(req[p].password)
                   /\ \A r \in resets' : r.id # loc[p].resetId]_vars

---------------------------------------------------------------------------
(* C30 *)

\* the columns of a user row that are not the verification token and its expiry
Identity(row) ==
    [username |-> row.username, email |-> row.email, password |-> row.password,
     is_verified |-> row.is_verified]

\* C30: the step of the conflict-resend path of register adds no row, leaves
\* every row but the one it found as it was, and changes of that row only
\* verification_token and verification_token_expiry, so that the stored hash
\* is not the hash of the request's password unless it was before; and a
\* login succeeds only with a password whose hash the row of its username
\* stores.
C30_ResendKeepsIdentity ==
    [][/\ \A p \in Procs :
             (pc[p] = "reg_resend" /\ pc'[p] = "idle")
                 => /\ DOMAIN users' = DOMAIN users
                    /\ \A i \in DOMAIN users :
                          /\ Identity(users'[i]) = Identity(users[i])
                          /\ i # loc[p].id => users'[i] = users[i]
       /\ (last'.kind = "login" /\ last'.success)
             => \E i \in UsersByUsername(last'.username) :
                   Compare(last'.password, users[i].password)]_vars

\* register has just taken the conflict-resend path for bob with a password
\* that is not bob's: bob's row has the new token and bob's first password
C30_Witness ==
    /\ last.kind = "register" /\ last.status = 200 /\ last.requiresVerification
    /\ last.username = "bob" /\ last.email = "b@x.com"
    /\ users[1].verification_token = last.mail.token
    /\ users[1].password = SeededUsers[1].password
    /\ ~Compare(last.password, users[1].password)

====
